---- MODULE Spec2Model ----
(***************************************************************************)
(* Model of processing/data_processing.py: gridded heat-demand rasters.   *)
(*                                                                         *)
(* A GeoDataFrame is a record [crs, rows]; a row is a record               *)
(* [index, geometry, attrs] where attrs maps column names to values.       *)
(* A polygon is the sequence of its vertices, a vertex is <<x, y>>.        *)
(* Input polygons are axis-aligned rectangles with integer coordinates.    *)
(* Attribute values are rationals <<numerator, denominator>>.              *)
(***************************************************************************)
EXTENDS Integers, Sequences, FiniteSets, TLC

VARIABLES
    pc,                 \* position of the caller / of calculate_hd
    gdf, stepsize, crs, \* arguments of create_polygon_mask(s)
    data_intersected, mask_gdf, hd_column,  \* arguments of data_intersect
    input_hd_gdf, hd_type,                  \* arguments of calculate_hd (with mask_gdf)
    average_hd, masks, masked_heat_demand, hd,  \* locals of calculate_hd
    ret,                \* what the call returned or raised
    ret2                \* what data_intersect returned for its own output

gridvars == <<pc, gdf, stepsize, crs, ret>>

aggvars == <<pc, data_intersected, mask_gdf, hd_column, ret, ret2>>

hdlocals == <<input_hd_gdf, hd_type, average_hd, masks, masked_heat_demand, hd>>

vars == <<pc, gdf, stepsize, crs, data_intersected, mask_gdf, hd_column,
          input_hd_gdf, hd_type, average_hd, masks, masked_heat_demand, hd, ret, ret2>>

----------------------------------------------------------------------------
\* Bounds of the checked input space

MaxMin == 1
MaxExtent == 2
MaxStep == 2
AggExtent == 3
AggStep == 2

RowCounts == 0 .. 2

----------------------------------------------------------------------------
\* Helpers: sequences, minima, geometry

MinOf(S) == CHOOSE m \in S : \A k \in S : m <= k

MaxOf(S) == CHOOSE m \in S : \A k \in S : m >= k

Range(s) == {s[k] : k \in DOMAIN s}

RECURSIVE Flatten(_)
Flatten(ss) == IF ss = <<>> THEN <<>> ELSE Head(ss) \o Flatten(Tail(ss))

NoAttrs == [c \in {} |-> <<0, 1>>]

\* attrs with column c set to v (a new column, or an existing one overwritten)
Put(attrs, c, v) == [n \in DOMAIN attrs \cup {c} |-> IF n = c THEN v ELSE attrs[n]]

Abs(n) == IF n < 0 THEN -n ELSE n

RECURSIVE GCD(_, _)
GCD(a, b) == IF b = 0 THEN a ELSE GCD(b, a % b)

\* rationals in lowest terms with a positive denominator; <<0, 0>> is NaN
NaNValue == <<0, 0>>

Zero == <<0, 1>>

RNorm(q) ==
    IF q[2] = 0 THEN NaNValue
    ELSE LET g == GCD(Abs(q[1]), Abs(q[2]))
             sg == IF q[2] < 0 THEN -1 ELSE 1
         IN  <<sg * (q[1] \div g), sg * (q[2] \div g)>>

RAdd(p, q) == RNorm(<<p[1] * q[2] + q[1] * p[2], p[2] * q[2]>>)

RMulInt(p, k) == RNorm(<<p[1] * k, p[2]>>)

RDivInt(p, k) == RNorm(<<p[1], p[2] * k>>)

Whole(n) == <<n, 1>>

RECURSIVE RSum(_)
RSum(qs) == IF qs = <<>> THEN Zero ELSE RAdd(Head(qs), RSum(Tail(qs)))

\* shapely Polygon([...]) of a rectangle with its lower-left corner at (x, y)
RectPolygon(x, y, w, h) ==
    [type |-> "Polygon", pts |-> <<<<x, y>>, <<x + w, y>>, <<x + w, y + h>>, <<x, y + h>>>>]

PointGeom(x, y) == [type |-> "Point", pts |-> <<<<x, y>>>>]

\* geometry.bounds: (minx, miny, maxx, maxy)
bounds(g) ==
    <<MinOf({p[1] : p \in Range(g.pts)}), MinOf({p[2] : p \in Range(g.pts)}),
      MaxOf({p[1] : p \in Range(g.pts)}), MaxOf({p[2] : p \in Range(g.pts)})>>

\* total_bounds that answers zeros, not NaN, for a frame without rows
total_bounds_zero(df) ==
    IF Len(df.rows) = 0 THEN [nan |-> FALSE, v |-> <<0, 0, 0, 0>>]
    ELSE LET B == {bounds(df.rows[k].geometry) : k \in DOMAIN df.rows}
         IN  [nan |-> FALSE,
              v |-> <<MinOf({b[1] : b \in B}), MinOf({b[2] : b \in B}),
                      MaxOf({b[3] : b \in B}), MaxOf({b[4] : b \in B})>>]

\* GeoDataFrame.total_bounds: four NaN for a frame without rows
total_bounds(df) ==
    IF Len(df.rows) = 0 THEN [nan |-> TRUE, v |-> <<0, 0, 0, 0>>]
    ELSE LET B == {bounds(df.rows[k].geometry) : k \in DOMAIN df.rows}
         IN  [nan |-> FALSE,
              v |-> <<MinOf({b[1] : b \in B}), MinOf({b[2] : b \in B}),
                      MaxOf({b[3] : b \in B}), MaxOf({b[4] : b \in B})>>]

\* arange that drops the last, partial step (floor instead of ceil)
arange_floor(start, stop, step) ==
    LET n == IF stop <= start THEN 0 ELSE (stop - start) \div step
    IN  [k \in 1 .. n |-> start + (k - 1) * step]

\* numpy.arange(start, stop, step) for step > 0: ceil((stop - start) / step) values
arange(start, stop, step) ==
    LET n == IF stop <= start THEN 0 ELSE (stop - start + step - 1) \div step
    IN  [k \in 1 .. n |-> start + (k - 1) * step]

\* itertools.product(x, y): x-major order
product(x, y) ==
    [k \in 1 .. Len(x) * Len(y) |->
        <<x[((k - 1) \div Len(y)) + 1], y[((k - 1) % Len(y)) + 1]>>]

DefaultCRS == "EPSG:3034"

Omitted == "omitted"

\* binding of a keyword parameter that has a default value
Param(arg, default) == IF arg = Omitted THEN default ELSE arg

Raised(e) == [status |-> "raised", value |-> e]

Returned(v) == [status |-> "ok", value |-> v]

----------------------------------------------------------------------------
\* create_polygon_mask

create_polygon_mask(df, step, crsArg) ==
    LET tb == total_bounds(df)
    IN  IF tb.nan THEN Raised("ValueError")  \* numpy.arange of NaN cannot compute a length
        ELSE LET x == arange(tb.v[1], tb.v[3], step)
                 y == arange(tb.v[2], tb.v[4], step)
                 ab == product(x, y)
                 polygons == [k \in DOMAIN ab |->
                                 [type |-> "Polygon",
                                  pts |-> <<<<ab[k][1], ab[k][2]>>,
                                            <<ab[k][1] + step, ab[k][2]>>,
                                            <<ab[k][1] + step, ab[k][2] + step>>,
                                            <<ab[k][1], ab[k][2] + step>>>>]]
             IN  Returned([crs |-> Param(crsArg, DefaultCRS),
                           columns |-> {},
                           rows |-> [k \in DOMAIN polygons |->
                                        [index |-> k - 1,
                                         geometry |-> polygons[k],
                                         attrs |-> NoAttrs]]])

\* reset_index forgotten: the row labels stay as they came
reset_index_kept(df) == df

\* DataFrame.reset_index(): the row labels become 0 .. n-1
reset_index(df) ==
    [df EXCEPT !.rows = [k \in DOMAIN df.rows |-> [df.rows[k] EXCEPT !.index = k - 1]]]

RECURSIVE SelectRows(_, _)
SelectRows(rows, lab) ==
    IF rows = <<>> THEN <<>>
    ELSE (IF Head(rows).index = lab THEN <<Head(rows)>> ELSE <<>>)
         \o SelectRows(Tail(rows), lab)

\* gdf.loc[gdf.index == i]
loc_index_eq(df, i) == [df EXCEPT !.rows = SelectRows(df.rows, i)]

\* create_polygon_masks: the crs parameter is accepted and not passed on
create_polygon_masks(df, step, crsArg) ==
    LET g == reset_index(df)
        each == [i \in 1 .. Len(g.rows) |->
                    create_polygon_mask(loc_index_eq(g, i - 1), step, Omitted)]
    IN  IF \E i \in DOMAIN each : each[i].status = "raised"
        THEN Raised("ValueError")
        ELSE Returned([i \in DOMAIN each |-> each[i].value])

----------------------------------------------------------------------------
\* data_intersect

\* the predicate strengthened to shared interior area (a point: strictly inside)
intersects_interior(g1, g2) ==
    LET a == bounds(g1)
        b == bounds(g2)
    IN  /\ (a[1] < b[3] /\ b[1] < a[3]) \/ (a[1] = a[3] /\ b[1] < a[1] /\ a[1] < b[3])
        /\ (a[2] < b[4] /\ b[2] < a[4]) \/ (a[2] = a[4] /\ b[2] < a[2] /\ a[2] < b[4])

\* the default predicate of geopandas.sjoin: the closed geometries share a
\* point (all geometries here are axis-aligned rectangles or points)
intersects(g1, g2) ==
    LET a == bounds(g1)
        b == bounds(g2)
    IN  /\ a[1] <= b[3] /\ b[1] <= a[3]
        /\ a[2] <= b[4] /\ b[2] <= a[4]

NaNIndex == -1

\* geopandas.sjoin(left_df, right_df, how="left"): every left row once per
\* right row it intersects, with that row's label as index_right; a left row
\* without a match is kept with index_right NaN
sjoin_left(left_df, right_df) ==
    Flatten([k \in DOMAIN left_df.rows |->
        LET m == Flatten([j \in DOMAIN right_df.rows |->
                    IF intersects(left_df.rows[k].geometry, right_df.rows[j].geometry)
                    THEN <<right_df.rows[j].index>> ELSE <<>>])
        IN  IF m = <<>> THEN <<[row |-> left_df.rows[k], index_right |-> NaNIndex]>>
            ELSE [j \in DOMAIN m |-> [row |-> left_df.rows[k], index_right |-> m[j]]]])

RECURSIVE ValuesOf(_, _, _)
ValuesOf(joined, key, col) ==
    IF joined = <<>> THEN <<>>
    ELSE (IF Head(joined).index_right = key THEN <<Head(joined).row.attrs[col]>> ELSE <<>>)
         \o ValuesOf(Tail(joined), key, col)

\* groupby('index_right')[col].sum(): NaN keys are dropped
groupby_sum(joined, col) ==
    [key \in {joined[k].index_right : k \in DOMAIN joined} \ {NaNIndex} |->
        RSum(ValuesOf(joined, key, col))]

\* pd.concat([grouped, mask], axis=1): outer join on the row labels
concat_axis1(grouped, col, mask) ==
    [crs |-> mask.crs,
     columns |-> mask.columns \cup {col},
     rows |-> [k \in DOMAIN mask.rows |->
                 [mask.rows[k] EXCEPT !.attrs =
                     Put(@, col, IF mask.rows[k].index \in DOMAIN grouped
                                 THEN grouped[mask.rows[k].index] ELSE NaNValue)]]]

\* to_crs: the grids of this model are in EPSG:3034 already, for which the
\* reprojection leaves the coordinates as they are
to_crs(df, target) == [df EXCEPT !.crs = target]

fillna0(df) ==
    [df EXCEPT !.rows = [k \in DOMAIN df.rows |->
        [df.rows[k] EXCEPT !.attrs = [n \in DOMAIN @ |-> IF @[n] = NaNValue THEN Zero ELSE @[n]]]]]

\* the pruning step left out
keep_zero(df, col) == df

\* gdf_hd[gdf_hd[col] != 0]
drop_zero(df, col) ==
    [df EXCEPT !.rows = SelectSeq(@, LAMBDA r : r.attrs[col] # Zero)]

RECURSIVE Dedup(_, _)
Dedup(rows, seen) ==
    IF rows = <<>> THEN <<>>
    ELSE LET key == <<Head(rows).geometry, Head(rows).attrs>>
         IN  IF key \in seen THEN Dedup(Tail(rows), seen)
             ELSE <<Head(rows)>> \o Dedup(Tail(rows), seen \cup {key})

\* drop_duplicates(): the first of equal rows (all columns, not the label) stays
drop_duplicates(df) == [df EXCEPT !.rows = Dedup(@, {})]

Normalized == "HD[MWh/ha]"

\* gdf_hd['HD[MWh/ha]'] = gdf_hd[col] / 1000
with_normalized(df, col) ==
    [df EXCEPT !.columns = @ \cup {Normalized},
               !.rows = [k \in DOMAIN @ |->
                   [@[k] EXCEPT !.attrs = Put(@, Normalized, RDivInt(@[col], 1000))]]]

data_intersect(fragments, mask, col) ==
    IF col \notin fragments.columns THEN Raised("KeyError")
    ELSE LET leftjoin_gdf == sjoin_left(fragments, mask)
             gdf_grouped == groupby_sum(leftjoin_gdf, col)
             s3 == concat_axis1(gdf_grouped, col, mask)
             s4 == to_crs(s3, "EPSG:3034")
             s5 == fillna0(s4)
             s6 == drop_zero(s5, col)
             s7 == drop_duplicates(s6)
             s8 == reset_index(s7)
         IN  Returned(with_normalized(s8, col))

----------------------------------------------------------------------------
\* Callers of the grid functions

CRSs == {"EPSG:3034", "EPSG:4326"}

Rects == {RectPolygon(x, y, w, h) : x \in 0 .. MaxMin, y \in 0 .. MaxMin,
                                    w \in 0 .. MaxExtent, h \in 0 .. MaxExtent}

Squares == {RectPolygon(x, x, w, w) : x \in 0 .. MaxMin, w \in 1 .. MaxExtent}

\* row labels of the input: the default RangeIndex or any other labels
LabelOffsets == {0, 7}

InputFrames ==
    {[crs |-> "EPSG:25832", columns |-> {},
      rows |-> [k \in 1 .. n |-> [index |-> off + k - 1,
                                  geometry |-> IF k = 1 THEN r ELSE q,
                                  attrs |-> NoAttrs]]] :
        n \in RowCounts, off \in LabelOffsets, r \in Rects, q \in Squares}

GridInit ==
    /\ pc = "ready"
    /\ gdf \in InputFrames
    /\ stepsize \in 1 .. MaxStep
    /\ crs \in CRSs \cup {Omitted}
    /\ ret = Returned(<<>>)
    /\ ret2 = Returned(<<>>)
    /\ data_intersected = <<>> /\ mask_gdf = <<>> /\ hd_column = ""
    /\ input_hd_gdf = <<>> /\ hd_type = "" /\ average_hd = ""
    /\ masks = <<>> /\ masked_heat_demand = <<>> /\ hd = <<>>

CallCreatePolygonMask ==
    /\ pc = "ready"
    /\ ret' = create_polygon_mask(gdf, stepsize, crs)
    /\ pc' = "mask"
    /\ UNCHANGED <<gdf, stepsize, crs, data_intersected, mask_gdf, hd_column, ret2>>
    /\ UNCHANGED hdlocals

CallCreatePolygonMasks ==
    /\ pc = "ready"
    /\ ret' = create_polygon_masks(gdf, stepsize, crs)
    /\ pc' = "masks"
    /\ UNCHANGED <<gdf, stepsize, crs, data_intersected, mask_gdf, hd_column, ret2>>
    /\ UNCHANGED hdlocals

GridNext == CallCreatePolygonMask \/ CallCreatePolygonMasks

SpecGrid == GridInit /\ [][GridNext]_vars

----------------------------------------------------------------------------
\* Callers of data_intersect

Columns == {"HD", Normalized}

FragmentValues == {-1, 1, 2}

FirstFragments ==
    {[g |-> PointGeom(x, y), v |-> v] : x \in 0 .. AggExtent, y \in 0 .. AggExtent,
                                       v \in FragmentValues}

OtherFragments ==
    {[g |-> g, v |-> v] : g \in {PointGeom(1, 1), RectPolygon(0, 0, 1, 1), RectPolygon(1, 1, 2, 2)},
                          v \in {-1, 0, 1}}

FragmentCounts == 0 .. 2

FragmentFrames(col) ==
    {[crs |-> DefaultCRS, columns |-> {col},
      rows |-> [k \in 1 .. n |->
                 LET fr == IF k = 1 THEN f ELSE o
                 IN  [index |-> k - 1, geometry |-> fr.g,
                      attrs |-> [c \in {col} |-> Whole(fr.v)]]]] :
        n \in FragmentCounts, f \in FirstFragments, o \in OtherFragments}

AggGrids ==
    {create_polygon_mask([crs |-> DefaultCRS, columns |-> {},
                          rows |-> <<[index |-> 0, geometry |-> RectPolygon(0, 0, w, h),
                                      attrs |-> NoAttrs]>>], AggStep, Omitted).value :
        w \in 1 .. AggExtent, h \in 1 .. AggExtent}

AggInit ==
    /\ pc = "ready"
    /\ hd_column \in Columns
    /\ data_intersected \in FragmentFrames(hd_column)
    /\ mask_gdf \in AggGrids
    /\ ret = Returned(<<>>)
    /\ ret2 = Returned(<<>>)
    /\ gdf = <<>> /\ stepsize = 0 /\ crs = Omitted
    /\ input_hd_gdf = <<>> /\ hd_type = "" /\ average_hd = ""
    /\ masks = <<>> /\ masked_heat_demand = <<>> /\ hd = <<>>

CallDataIntersect ==
    /\ pc = "ready"
    /\ ret' = data_intersect(data_intersected, mask_gdf, hd_column)
    /\ pc' = "aggregated"
    /\ UNCHANGED <<gdf, stepsize, crs, data_intersected, mask_gdf, hd_column, ret2>>
    /\ UNCHANGED hdlocals

\* data_intersect on its own output, same grid and same column
CallDataIntersectAgain ==
    /\ pc = "aggregated"
    /\ ret.status = "ok"
    /\ ret2' = data_intersect(ret.value, mask_gdf, hd_column)
    /\ pc' = "again"
    /\ UNCHANGED <<gdf, stepsize, crs, data_intersected, mask_gdf, hd_column, ret>>
    /\ UNCHANGED hdlocals

AggNext == CallDataIntersect \/ CallDataIntersectAgain

SpecAgg == AggInit /\ [][AggNext]_vars

----------------------------------------------------------------------------
\* calculate_hd

\* the intersection of two axis-aligned rectangles, as bounds
Clip(g1, g2) ==
    LET a == bounds(g1)
        b == bounds(g2)
        lo(u, v) == IF u < v THEN u ELSE v
        hi(u, v) == IF u > v THEN u ELSE v
    IN  <<hi(a[1], b[1]), hi(a[2], b[2]), lo(a[3], b[3]), lo(a[4], b[4])>>

\* geopandas.overlay(df1, df2), how='intersection', keep_geom_type=True: one
\* fragment per pair of rows whose intersection has area, with the columns of
\* both frames, ordered by the row of df1 and then by the row of df2
overlay_input_data_with_mask(df1, df2) ==
    LET frags == Flatten([k \in DOMAIN df1.rows |-> Flatten([j \in DOMAIN df2.rows |->
                    LET c == Clip(df1.rows[k].geometry, df2.rows[j].geometry)
                    IN  IF c[1] < c[3] /\ c[2] < c[4]
                        THEN <<[geometry |-> RectPolygon(c[1], c[2], c[3] - c[1], c[4] - c[2]),
                                attrs |-> df1.rows[k].attrs]>>
                        ELSE <<>>])])
    IN  [crs |-> df1.crs,
         columns |-> df1.columns \cup df2.columns,
         rows |-> [k \in DOMAIN frags |->
                     [index |-> k - 1, geometry |-> frags[k].geometry, attrs |-> frags[k].attrs]]]

overlay_input_data_with_masks(df1, list_df2) ==
    [k \in DOMAIN list_df2 |-> overlay_input_data_with_mask(df1, list_df2[k])]

\* GeoSeries.area of a rectangle
area(g) == LET b == bounds(g) IN (b[3] - b[1]) * (b[4] - b[2])

\* the lower-left corner taken for the centroid
corner(g) == LET b == bounds(g) IN PointGeom(b[1], b[2])

\* GeoSeries.centroid of a rectangle (the coordinates of this model are even)
centroid(g) == LET b == bounds(g) IN PointGeom((b[1] + b[3]) \div 2, (b[2] + b[4]) \div 2)

\* the body of the loop over masked_heat_demand
with_hd_and_centroid(df, col) ==
    [df EXCEPT !.columns = @ \cup {Normalized},
               !.rows = [k \in DOMAIN @ |->
                   [@[k] EXCEPT !.attrs = Put(@, Normalized, RMulInt(@[col], area(df.rows[k].geometry))),
                                !.geometry = centroid(@)]]]

RECURSIVE Reverse(_)
Reverse(q) == IF q = <<>> THEN <<>> ELSE Reverse(Tail(q)) \o <<Head(q)>>

\* the frames put together last to first
concat_reversed(frames) ==
    IF Len(frames) = 0 THEN Raised("ValueError")
    ELSE Returned([crs |-> frames[1].crs,
                   columns |-> UNION {frames[k].columns : k \in DOMAIN frames},
                   rows |-> Flatten(Reverse([k \in DOMAIN frames |-> frames[k].rows]))])

\* pd.concat(frames): the rows of the frames in list order, labels kept
concat(frames) ==
    IF Len(frames) = 0 THEN Raised("ValueError")  \* No objects to concatenate
    ELSE Returned([crs |-> frames[1].crs,
                   columns |-> UNION {frames[k].columns : k \in DOMAIN frames},
                   rows |-> Flatten([k \in DOMAIN frames |-> frames[k].rows])])

\* any other selector taken for commercial
average_hd_lenient(t) ==
    IF t = "res" THEN "HD_res_m2" ELSE "HD_com_m2"

\* the column of the selected demand type; "" stands for raise ValueError
average_hd_of(t) ==
    IF t = "res" THEN "HD_res_m2"
    ELSE IF t = "com" THEN "HD_com_m2"
    ELSE ""

FineStep == 100

\* if / elif / else at the head of calculate_hd
CheckType ==
    /\ pc = "start"
    /\ IF average_hd_of(hd_type) = ""
       THEN /\ ret' = Raised("ValueError")
            /\ pc' = "raised"
            /\ UNCHANGED average_hd
       ELSE /\ average_hd' = average_hd_of(hd_type)
            /\ pc' = "masks"
            /\ UNCHANGED ret
    /\ UNCHANGED <<gdf, stepsize, crs, data_intersected, mask_gdf, hd_column, ret2,
                   input_hd_gdf, hd_type, masks, masked_heat_demand, hd>>

CreateMasks ==
    /\ pc = "masks"
    /\ LET r == create_polygon_masks(mask_gdf, FineStep, Omitted)
       IN  IF r.status = "raised"
           THEN ret' = r /\ pc' = "raised" /\ UNCHANGED masks
           ELSE masks' = r.value /\ pc' = "overlay" /\ UNCHANGED ret
    /\ UNCHANGED <<gdf, stepsize, crs, data_intersected, mask_gdf, hd_column, ret2,
                   input_hd_gdf, hd_type, average_hd, masked_heat_demand, hd>>

Overlay ==
    /\ pc = "overlay"
    /\ masked_heat_demand' = overlay_input_data_with_masks(input_hd_gdf, masks)
    /\ pc' = "fragments"
    /\ UNCHANGED <<gdf, stepsize, crs, data_intersected, mask_gdf, hd_column, ret, ret2,
                   input_hd_gdf, hd_type, average_hd, masks, hd>>

\* for masked_heat_demand_gdf in masked_heat_demand: the frames are changed in place
Fragments ==
    /\ pc = "fragments"
    /\ masked_heat_demand' =
          [k \in DOMAIN masked_heat_demand |->
              with_hd_and_centroid(masked_heat_demand[k], average_hd)]
    /\ pc' = "join"
    /\ UNCHANGED <<gdf, stepsize, crs, data_intersected, mask_gdf, hd_column, ret, ret2,
                   input_hd_gdf, hd_type, average_hd, masks, hd>>

Join ==
    /\ pc = "join"
    /\ hd' = [k \in DOMAIN masked_heat_demand |->
                 data_intersect(masked_heat_demand[k], masks[k], Normalized).value]
    /\ pc' = "concat"
    /\ UNCHANGED <<gdf, stepsize, crs, data_intersected, mask_gdf, hd_column, ret, ret2,
                   input_hd_gdf, hd_type, average_hd, masks, masked_heat_demand>>

Concat ==
    /\ pc = "concat"
    /\ ret' = concat(hd)
    /\ pc' = IF Len(hd) = 0 THEN "raised" ELSE "done"
    /\ UNCHANGED <<gdf, stepsize, crs, data_intersected, mask_gdf, hd_column, ret2,
                   input_hd_gdf, hd_type, average_hd, masks, masked_heat_demand, hd>>

\* Inputs of calculate_hd: coordinates are multiples of half a fine cell
Half == FineStep \div 2

MaxOffset == 2
MaxCoarse == 3
MaxDemand == 2

CoarseCells ==
    {RectPolygon(Half * a, 0, Half * w, Half * h) :
        a \in 0 .. MaxOffset, w \in 2 .. MaxCoarse, h \in 2 .. 3}

OtherCoarseCells == {RectPolygon(0, 0, FineStep, FineStep), RectPolygon(FineStep, 0, 2 * FineStep, FineStep)}

MaskFrames ==
    {[crs |-> DefaultCRS, columns |-> {},
      rows |-> [k \in 1 .. n |-> [index |-> off + k - 1,
                                  geometry |-> IF k = 1 THEN r ELSE q,
                                  attrs |-> NoAttrs]]] :
        n \in RowCounts, off \in {3}, r \in CoarseCells, q \in OtherCoarseCells}

DemandPolygons ==
    {RectPolygon(Half * x, Half * y, Half * w, Half * h) :
        x \in 0 .. MaxOffset, y \in 0 .. 1, w \in 1 .. MaxDemand, h \in 1 .. 2}

OtherDemandPolygons == {RectPolygon(0, 0, 3 * FineStep, FineStep)}

\* densities <<HD_res_m2, HD_com_m2>>
Densities == {<<1, 3>>, <<2, 0>>}

DemandFrames ==
    {[crs |-> DefaultCRS, columns |-> {"HD_res_m2", "HD_com_m2"},
      rows |-> [k \in 1 .. n |->
                 [index |-> k - 1,
                  geometry |-> IF k = 1 THEN r ELSE q,
                  attrs |-> [c \in {"HD_res_m2", "HD_com_m2"} |->
                                Whole(IF c = "HD_res_m2" THEN d[1] ELSE d[2])]]]] :
        n \in RowCounts, r \in DemandPolygons, q \in OtherDemandPolygons, d \in Densities}

HdTypes == {"res", "com", "industrial"}

Init ==
    /\ pc = "start"
    /\ mask_gdf \in MaskFrames
    /\ input_hd_gdf \in DemandFrames
    /\ hd_type \in HdTypes
    /\ average_hd = ""
    /\ masks = <<>> /\ masked_heat_demand = <<>> /\ hd = <<>>
    /\ ret = Returned(<<>>)
    /\ ret2 = Returned(<<>>)
    /\ gdf = <<>> /\ stepsize = 0 /\ crs = Omitted
    /\ data_intersected = <<>> /\ hd_column = ""

Next == CheckType \/ CreateMasks \/ Overlay \/ Fragments \/ Join \/ Concat

Spec == Init /\ [][Next]_vars

----------------------------------------------------------------------------
\* Properties of the grid functions

\* ceil(w / s), stated without division
Ceil(w, s) == CHOOSE n \in 0 .. w : n * s >= w /\ (n = 0 \/ (n - 1) * s < w)

Width(b) == b[3] - b[1]

Height(b) == b[4] - b[2]

\* the extent of the whole input frame, taken from its rows
Extent(df) ==
    LET P == UNION {Range(df.rows[k].geometry.pts) : k \in DOMAIN df.rows}
    IN  <<MinOf({p[1] : p \in P}), MinOf({p[2] : p \in P}),
          MaxOf({p[1] : p \in P}), MaxOf({p[2] : p \in P})>>

\* cell is the axis-aligned square of side s with lower-left corner (a, b)
IsSquareAt(cell, a, b, s) ==
    /\ cell.type = "Polygon"
    /\ Len(cell.pts) = 4
    /\ Range(cell.pts) = {<<a, b>>, <<a + s, b>>, <<a + s, b + s>>, <<a, b + s>>}

Anchored(cell, e, s) ==
    \E i \in 0 .. Width(e), j \in 0 .. Height(e) :
        IsSquareAt(cell, e[1] + i * s, e[2] + j * s, s)

\* two rectangles given by their bounds share interior area
OverlapInArea(b1, b2) ==
    /\ b1[1] < b2[3] /\ b2[1] < b1[3]
    /\ b1[2] < b2[4] /\ b2[2] < b1[4]

\* every unit square of the extent e lies in some cell of the grid
Covers(grid, e) ==
    \A px \in e[1] .. e[3] - 1, py \in e[2] .. e[4] - 1 :
        \E k \in DOMAIN grid.rows :
            LET c == bounds(grid.rows[k].geometry)
            IN  c[1] <= px /\ px + 1 <= c[3] /\ c[2] <= py /\ py + 1 <= c[4]

\* grid tessellates the extent e with step s
Tessellates(grid, e, s) ==
    /\ Len(grid.rows) = Ceil(Width(e), s) * Ceil(Height(e), s)
    /\ \A k \in DOMAIN grid.rows : Anchored(grid.rows[k].geometry, e, s)
    /\ \A k, l \in DOMAIN grid.rows :
          k # l => ~OverlapInArea(bounds(grid.rows[k].geometry), bounds(grid.rows[l].geometry))
    /\ Covers(grid, e)

\* C2: create_polygon_mask returns ceil(w/s) * ceil(h/s) cells, each an
\* axis-aligned square of side s anchored at (minx + i*s, miny + j*s); no two
\* cells overlap in area and together they cover the bounding rectangle.
C2_GridTessellation ==
    (pc = "mask" /\ ret.status = "ok") => Tessellates(ret.value, Extent(gdf), stepsize)

\* a grid of several cells whose last column extends past the max bound
C2_Witness ==
    /\ pc = "mask" /\ ret.status = "ok"
    /\ Len(gdf.rows) = 2
    /\ Len(ret.value.rows) >= 4
    /\ Width(Extent(gdf)) % stepsize # 0

\* C6 as claimed: every grid returned by create_polygon_mask and by
\* create_polygon_masks carries the caller-supplied CRS (the default
\* EPSG:3034 when the caller supplies none).
C6_CallerCRS ==
    /\ (pc = "mask" /\ ret.status = "ok") => ret.value.crs = Param(crs, "EPSG:3034")
    /\ (pc = "masks" /\ ret.status = "ok") =>
          \A i \in DOMAIN ret.value : ret.value[i].crs = Param(crs, "EPSG:3034")

Degenerate(df) == Width(Extent(df)) = 0 \/ Height(Extent(df)) = 0

\* C7 as claimed: create_polygon_mask never returns a grid for an input with
\* zero polygons or with a bounding box of zero width or zero height.
C7_NoExtentFails ==
    (pc = "mask" /\ (Len(gdf.rows) = 0 \/ Degenerate(gdf))) => ret.status = "raised"

\* C7 amended: create_polygon_mask fails when the input has zero polygons;
\* for an input whose bounding box has zero width or zero height it returns
\* an empty grid as success.
C7_EmptyFailsDegenerateEmptyGrid ==
    pc = "mask" =>
        /\ Len(gdf.rows) = 0 => ret.status = "raised"
        /\ (Len(gdf.rows) > 0 /\ Degenerate(gdf)) =>
              (ret.status = "ok" /\ Len(ret.value.rows) = 0)
        /\ (Len(gdf.rows) > 0 /\ ~Degenerate(gdf)) =>
              (ret.status = "ok" /\ Len(ret.value.rows) > 0)

C7_Witness ==
    /\ pc = "mask" /\ Len(gdf.rows) = 0 /\ ret.status = "raised"

\* C8: create_polygon_masks returns one grid per input polygon, in input row
\* order, and the i-th grid is create_polygon_mask of the i-th polygon alone:
\* it tessellates that polygon's own bounding box, whatever the row labels.
C8_OneGridPerPolygon ==
    pc = "masks" =>
        /\ ret.status = "ok"
        /\ Len(ret.value) = Len(gdf.rows)
        /\ \A i \in DOMAIN gdf.rows :
              /\ Tessellates(ret.value[i], bounds(gdf.rows[i].geometry), stepsize)
              /\ ret.value[i].rows =
                     create_polygon_mask([gdf EXCEPT !.rows = <<gdf.rows[i]>>],
                                         stepsize, Omitted).value.rows

\* two polygons with other row labels and different bounding boxes
C8_Witness ==
    /\ pc = "masks" /\ ret.status = "ok"
    /\ Len(gdf.rows) = 2
    /\ gdf.rows[1].index = 7
    /\ bounds(gdf.rows[1].geometry) # bounds(gdf.rows[2].geometry)
    /\ Len(ret.value[1].rows) > 0 /\ Len(ret.value[2].rows) > 0
    /\ ret.value[1].rows # ret.value[2].rows

----------------------------------------------------------------------------
\* Properties of data_intersect

RECURSIVE SumOver(_, _, _)
SumOver(K, rows, col) ==
    IF K = {} THEN Zero
    ELSE LET k == CHOOSE x \in K : TRUE
         IN  RAdd(rows[k].attrs[col], SumOver(K \ {k}, rows, col))

\* the fragments joined to a cell: those sharing a point with it
JoinedTo(cell) ==
    {k \in DOMAIN data_intersected.rows :
        LET f == bounds(data_intersected.rows[k].geometry)
            c == bounds(cell)
        IN  ~(f[3] < c[1] \/ c[3] < f[1] \/ f[4] < c[2] \/ c[4] < f[2])}

\* the raw summed demand of a cell
RawSum(cell) == SumOver(JoinedTo(cell), data_intersected.rows, hd_column)

\* C1 as claimed: every row of the table data_intersect returns, also for
\* hd_column = 'HD[MWh/ha]' as calculate_hd passes it, holds the raw summed
\* demand of its cell and a normalized demand equal to the raw sum / 1000.
C1_NormalizedIsRawOver1000 ==
    (pc = "aggregated" /\ ret.status = "ok") =>
        \A k \in DOMAIN ret.value.rows :
            LET r == ret.value.rows[k]
            IN  /\ {hd_column, Normalized} \subseteq DOMAIN r.attrs
                /\ r.attrs[hd_column] = RawSum(r.geometry)
                /\ RMulInt(r.attrs[Normalized], 1000) = r.attrs[hd_column]

\* C4: a grid cell that no fragment is joined to, and every cell whose summed
\* demand is exactly zero, is absent from the output of data_intersect; every
\* row present is a grid cell with a non-zero summed demand.
C4_ZeroCellsPruned ==
    (pc = "aggregated" /\ ret.status = "ok") =>
        /\ \A j \in DOMAIN mask_gdf.rows :
              LET cell == mask_gdf.rows[j].geometry
              IN  (JoinedTo(cell) = {} \/ RawSum(cell) = Zero) =>
                      \A k \in DOMAIN ret.value.rows : ret.value.rows[k].geometry # cell
        /\ \A k \in DOMAIN ret.value.rows :
              /\ ret.value.rows[k].attrs[hd_column] # Zero
              /\ \E j \in DOMAIN mask_gdf.rows :
                    /\ mask_gdf.rows[j].geometry = ret.value.rows[k].geometry
                    /\ RawSum(mask_gdf.rows[j].geometry) # Zero

\* a cell with fragments that cancel out, a cell without fragments, and a row
C4_Witness ==
    /\ pc = "aggregated" /\ ret.status = "ok"
    /\ Len(ret.value.rows) >= 1
    /\ \E j \in DOMAIN mask_gdf.rows :
          JoinedTo(mask_gdf.rows[j].geometry) # {} /\ RawSum(mask_gdf.rows[j].geometry) = Zero
    /\ \E j \in DOMAIN mask_gdf.rows : JoinedTo(mask_gdf.rows[j].geometry) = {}

Touching(c1, c2) ==
    LET a == bounds(c1)
        b == bounds(c2)
    IN  Abs(a[1] - b[1]) <= a[3] - a[1] /\ Abs(a[2] - b[2]) <= a[4] - a[2]

\* the sum of T's column over the rows of T on the cell or on a touching cell
NeighbourSum(cell) ==
    SumOver({k \in DOMAIN ret.value.rows : Touching(ret.value.rows[k].geometry, cell)},
            ret.value.rows, hd_column)

----------------------------------------------------------------------------
\* Properties of calculate_hd

\* C3: with a demand-type selector other than the two recognized values,
\* calculate_hd raises ValueError before any grid generation, overlay or
\* aggregation step runs, and the mask and demand inputs stay as they were.
C3_InvalidTypeFailsFirst ==
    /\ [](hd_type \notin {"res", "com"} =>
            /\ pc \in {"start", "raised"}
            /\ pc = "raised" => ret = [status |-> "raised", value |-> "ValueError"]
            /\ masks = <<>> /\ masked_heat_demand = <<>> /\ hd = <<>>)
    /\ [][hd_type \notin {"res", "com"} =>
            (mask_gdf' = mask_gdf /\ input_hd_gdf' = input_hd_gdf)]_vars

C3_Witness ==
    /\ hd_type = "industrial" /\ pc = "raised"
    /\ ret.status = "raised"
    /\ Len(mask_gdf.rows) > 0 /\ Len(input_hd_gdf.rows) > 0

\* the area two rectangles share
SharedArea(g1, g2) ==
    LET a == bounds(g1)
        b == bounds(g2)
        dx == (IF a[3] < b[3] THEN a[3] ELSE b[3]) - (IF a[1] > b[1] THEN a[1] ELSE b[1])
        dy == (IF a[4] < b[4] THEN a[4] ELSE b[4]) - (IF a[2] > b[2] THEN a[2] ELSE b[2])
    IN  IF dx > 0 /\ dy > 0 THEN dx * dy ELSE 0

RECURSIVE IntSum(_, _)
IntSum(K, f) ==
    IF K = {} THEN 0
    ELSE LET k == CHOOSE x \in K : TRUE IN f[k] + IntSum(K \ {k}, f)

SelectedColumn == IF hd_type = "res" THEN "HD_res_m2" ELSE "HD_com_m2"

\* density * area of the demand polygons over one fine cell
Expected(cell) ==
    IntSum(DOMAIN input_hd_gdf.rows,
           [k \in DOMAIN input_hd_gdf.rows |->
               input_hd_gdf.rows[k].attrs[SelectedColumn][1]
                   * SharedArea(input_hd_gdf.rows[k].geometry, cell)])

\* the fine cells of sub-grid i that carry demand
NonZeroCells(i) ==
    {k \in DOMAIN masks[i].rows : Expected(masks[i].rows[k].geometry) # 0}

\* the number of output rows of the sub-grids before sub-grid i
RowsBefore(i) == IntSum(1 .. i - 1, [j \in 1 .. i - 1 |-> Cardinality(NonZeroCells(j))])

\* C9: one overlay per sub-grid in input order, the i-th overlay aggregated
\* against the i-th sub-grid, and the returned table is the per-sub-grid
\* tables one after the other in that order: the rows of sub-grid i come
\* before the rows of sub-grid j whenever i < j.
C9_SubGridOrder ==
    /\ pc = "fragments" =>
          /\ Len(masked_heat_demand) = Len(mask_gdf.rows)
          /\ \A i \in DOMAIN masked_heat_demand :
                \A k \in DOMAIN masked_heat_demand[i].rows :
                    LET b == bounds(masked_heat_demand[i].rows[k].geometry)
                    IN  /\ b[1] < b[3] /\ b[2] < b[4]
                        /\ \E j \in DOMAIN masks[i].rows :
                              SharedArea(masked_heat_demand[i].rows[k].geometry,
                                         masks[i].rows[j].geometry)
                                  = (b[3] - b[1]) * (b[4] - b[2])
    /\ pc \in {"concat", "done"} => Len(hd) = Len(mask_gdf.rows)
    /\ pc = "done" =>
          /\ ret.status = "ok"
          /\ Len(ret.value.rows) = RowsBefore(Len(masks) + 1)
          /\ \A i \in DOMAIN masks :
                \A p \in RowsBefore(i) + 1 .. RowsBefore(i + 1) :
                    \E k \in NonZeroCells(i) :
                        /\ ret.value.rows[p].geometry = masks[i].rows[k].geometry
                        /\ RMulInt(ret.value.rows[p].attrs[Normalized], 1000)
                              = <<Expected(masks[i].rows[k].geometry), 1>>

\* two sub-grids with demand in different cells
C9_Witness ==
    /\ pc = "done" /\ ret.status = "ok"
    /\ Len(masks) = 2
    /\ NonZeroCells(1) # {} /\ NonZeroCells(2) # {}
    /\ \A k \in NonZeroCells(1), l \in NonZeroCells(2) :
          masks[1].rows[k].geometry # masks[2].rows[l].geometry

\* the cells of sub-grid i whose closed square holds the point
CellsHolding(i, pt) ==
    {j \in DOMAIN masks[i].rows :
        LET c == bounds(masks[i].rows[j].geometry)
        IN  c[1] <= pt[1] /\ pt[1] <= c[3] /\ c[2] <= pt[2] /\ pt[2] <= c[4]}

\* a fragment of sub-grid i with this centroid and value was clipped from cell j
ClippedFrom(i, j, row) ==
    \E d \in DOMAIN input_hd_gdf.rows :
        LET cell == masks[i].rows[j].geometry
            a == bounds(input_hd_gdf.rows[d].geometry)
            c == bounds(cell)
            x1 == IF a[1] > c[1] THEN a[1] ELSE c[1]
            x2 == IF a[3] < c[3] THEN a[3] ELSE c[3]
            y1 == IF a[2] > c[2] THEN a[2] ELSE c[2]
            y2 == IF a[4] < c[4] THEN a[4] ELSE c[4]
        IN  /\ x1 < x2 /\ y1 < y2
            /\ 2 * row.geometry.pts[1][1] = x1 + x2
            /\ 2 * row.geometry.pts[1][2] = y1 + y2
            /\ row.attrs[Normalized] =
                  <<input_hd_gdf.rows[d].attrs[SelectedColumn][1] * (x2 - x1) * (y2 - y1), 1>>

\* C10: within one sub-grid every fragment, valued density * area and put
\* at its centroid, is joined to exactly one fine cell, the cell it was
\* clipped from; the per-cell sums of a sub-grid add up to the total of
\* density * area over the fragments of that sub-grid's overlay.
C10_DemandConserved ==
    /\ pc \in {"join", "concat", "done"} =>
          \A i \in DOMAIN masked_heat_demand :
              \A k \in DOMAIN masked_heat_demand[i].rows :
                  LET row == masked_heat_demand[i].rows[k]
                      H == CellsHolding(i, row.geometry.pts[1])
                  IN  /\ row.geometry.type = "Point"
                      /\ Cardinality(H) = 1
                      /\ \A j \in H : ClippedFrom(i, j, row)
    /\ pc \in {"concat", "done"} =>
          \A i \in DOMAIN hd :
              /\ RMulInt(SumOver(DOMAIN hd[i].rows, hd[i].rows, Normalized), 1000)
                    = SumOver(DOMAIN masked_heat_demand[i].rows,
                              masked_heat_demand[i].rows, Normalized)
              /\ RMulInt(SumOver(DOMAIN hd[i].rows, hd[i].rows, Normalized), 1000)
                    = <<IntSum(DOMAIN masks[i].rows,
                               [j \in DOMAIN masks[i].rows |->
                                   Expected(masks[i].rows[j].geometry)]), 1>>

\* a sub-grid of several cells with fragments in more than one of them
C10_Witness ==
    /\ pc = "concat"
    /\ \E i \in DOMAIN hd :
          /\ Len(masks[i].rows) >= 2
          /\ Len(masked_heat_demand[i].rows) >= 3
          /\ Len(hd[i].rows) >= 2

====
